---- MODULE Spec2Model ----
(***************************************************************************)
(* A model of the DrQA pipeline of src/drqa/pipeline/drqa.py:              *)
(*   - DrQA._split_doc, the paragraph splitter (a pure function);          *)
(*   - DrQA.process_batch, the batch pipeline: rank, fetch, split,         *)
(*     tokenize, build examples, read, merge into per-query heaps, and     *)
(*     arrange the final predictions.                                      *)
(* Texts are sequences of one-character strings.  Indices that the program *)
(* stores (qidx, rel_didx, sidx, didx, heap positions) are kept 0-based as *)
(* in the Python source; TLA+ sequences are 1-based, hence the "+ 1" where *)
(* a stored index is used to read a sequence.                              *)
(***************************************************************************)
EXTENDS Integers, Sequences, FiniteSets, TLC

\* ------------------------------------------------------------------------
\* Bounds of the model
\* ------------------------------------------------------------------------
MaxDocLen == 4       \* longest text given to _split_doc in SplitSpec
MaxExamples == 3     \* most (query, rank, passage) triples in one call

Alphabet == {"a", "b", " ", "\n"}   \* characters of the texts
DocIds == {1, 2}                    \* identifiers the ranker may return
QueryCounts == {0, 1, 2}            \* len(queries)
TopNs == {0 - 1, 0, 1, 2, 3}        \* values of the top_n argument
NDocs == {0, 1, 2}                  \* values of the n_docs argument
Scores == {1, 2}                    \* scores the reader may give a span

\* ------------------------------------------------------------------------
\* Text helpers (Python str methods used by the pipeline)
\* ------------------------------------------------------------------------
IsSpace(c) == c \in {" ", "\n"}

RECURSIVE LStrip(_)
LStrip(s) == IF s # <<>> /\ IsSpace(Head(s)) THEN LStrip(Tail(s)) ELSE s

RECURSIVE RStrip(_)
RStrip(s) ==
    IF s # <<>> /\ IsSpace(s[Len(s)]) THEN RStrip(SubSeq(s, 1, Len(s) - 1)) ELSE s

\* str.strip()
Strip(s) == RStrip(LStrip(s))

\* regex.split(r'\n+', doc): the pieces between maximal runs of newlines;
\* a leading or trailing run leaves an empty piece, as in Python.
RECURSIVE RegexSplitFrom(_, _, _, _)
RegexSplitFrom(s, i, cur, out) ==
    IF i > Len(s) THEN Append(out, cur)
    ELSE IF s[i] = "\n"
         THEN IF i > 1 /\ s[i - 1] = "\n"
              THEN RegexSplitFrom(s, i + 1, cur, out)
              ELSE RegexSplitFrom(s, i + 1, <<>>, Append(out, cur))
         ELSE RegexSplitFrom(s, i + 1, Append(cur, s[i]), out)

RegexSplit(s) == RegexSplitFrom(s, 1, <<>>, <<>>)

\* ' '.join(curr)
RECURSIVE JoinSpace(_)
JoinSpace(parts) ==
    IF parts = <<>> THEN <<>>
    ELSE IF Len(parts) = 1 THEN parts[1]
    ELSE parts[1] \o <<" ">> \o JoinSpace(Tail(parts))

RECURSIVE SumLen(_)
SumLen(parts) == IF parts = <<>> THEN 0 ELSE Len(Head(parts)) + SumLen(Tail(parts))

\* ------------------------------------------------------------------------
\* DrQA._split_doc
\* ------------------------------------------------------------------------
GROUP_LENGTH == 0

\* (a variant of Flush that forgets the "len(curr) > 0" conjunct)
FlushAnyBuffer(curr, split, G) == SumLen(curr) + Len(split) > G

\* The flush test of the loop: a non-empty buffer that the next piece would
\* push over the threshold.
Flush(curr, split, G) == Len(curr) > 0 /\ SumLen(curr) + Len(split) > G

\* The for loop over the pieces; curr_len is SumLen(curr).
RECURSIVE SplitLoop(_, _, _, _)
SplitLoop(pieces, curr, out, G) ==
    IF pieces = <<>>
    THEN IF Len(curr) > 0 THEN Append(out, JoinSpace(curr)) ELSE out
    ELSE LET split == Strip(Head(pieces))
         IN  IF Len(split) = 0
             THEN SplitLoop(Tail(pieces), curr, out, G)
             ELSE IF Flush(curr, split, G)
                  THEN SplitLoop(Tail(pieces), <<split>>,
                                 Append(out, JoinSpace(curr)), G)
                  ELSE SplitLoop(Tail(pieces), Append(curr, split), out, G)

SplitDocG(text, G) == SplitLoop(RegexSplit(text), <<>>, <<>>, G)

\* _split_doc as the pipeline calls it, with the class constant GROUP_LENGTH
SplitDoc(text) == SplitDocG(text, GROUP_LENGTH)

\* ------------------------------------------------------------------------
\* External collaborators: document store and tokenizer
\* ------------------------------------------------------------------------
\* PROCESS_DB.get_doc_text(doc_id): the store's content in this model.
\* Document 1 has two paragraphs, every other document one.
DocText(d) ==
    IF d = 1 THEN <<"a", "\n", "\n", "b">> ELSE <<" ", "a", "b", "\n">>

\* PROCESS_TOK.tokenize(text).words(): the maximal runs of non-space characters
RECURSIVE WordsFrom(_, _, _, _)
WordsFrom(s, i, cur, out) ==
    IF i > Len(s) THEN (IF cur = <<>> THEN out ELSE Append(out, cur))
    ELSE IF IsSpace(s[i])
         THEN WordsFrom(s, i + 1, <<>>, IF cur = <<>> THEN out ELSE Append(out, cur))
         ELSE WordsFrom(s, i + 1, Append(cur, s[i]), out)

Tokenize(text) == WordsFrom(text, 1, <<>>, <<>>)

QueryTexts == {<<>>, <<"a">>}

\* ------------------------------------------------------------------------
\* heapq on tuples (score, ex_id): Python's tuple order is lexicographic.
\* An item is <<score, <<qidx, rel_didx, sidx>>>>; the source's item also
\* carries the span (s, e), which the comparison never reaches because the
\* ex_ids of two items of one call differ.
\* ------------------------------------------------------------------------
IdLess(a, b) ==
    \/ a[1] < b[1]
    \/ a[1] = b[1] /\ a[2] < b[2]
    \/ a[1] = b[1] /\ a[2] = b[2] /\ a[3] < b[3]

\* (a variant of ItemLess that looks at the score alone)
ItemLessByScore(x, y) == x[1] < y[1]

\* item < other, for tuples
ItemLess(x, y) == x[1] < y[1] \/ (x[1] = y[1] /\ IdLess(x[2], y[2]))

\* heapq._siftdown(heap, startpos, pos)
RECURSIVE SiftDownLoop(_, _, _, _)
SiftDownLoop(heap, startpos, pos, newitem) ==
    IF pos > startpos
    THEN LET parentpos == (pos - 1) \div 2
             parent == heap[parentpos + 1]
         IN  IF ItemLess(newitem, parent)
             THEN SiftDownLoop([heap EXCEPT ![pos + 1] = parent],
                               startpos, parentpos, newitem)
             ELSE [heap EXCEPT ![pos + 1] = newitem]
    ELSE [heap EXCEPT ![pos + 1] = newitem]

siftdown(heap, startpos, pos) == SiftDownLoop(heap, startpos, pos, heap[pos + 1])

\* heapq._siftup(heap, pos)
RECURSIVE SiftUpLoop(_, _, _, _)
SiftUpLoop(heap, startpos, pos, newitem) ==
    LET endpos == Len(heap)
        childpos == 2 * pos + 1
    IN  IF childpos < endpos
        THEN LET rightpos == childpos + 1
                 c == IF rightpos < endpos
                         /\ ~ItemLess(heap[childpos + 1], heap[rightpos + 1])
                      THEN rightpos ELSE childpos
             IN  SiftUpLoop([heap EXCEPT ![pos + 1] = heap[c + 1]],
                            startpos, c, newitem)
        ELSE siftdown([heap EXCEPT ![pos + 1] = newitem], startpos, pos)

siftup(heap, pos) == SiftUpLoop(heap, pos, pos, heap[pos + 1])

\* heapq.heappush(heap, item)
heappush(heap, item) == siftdown(Append(heap, item), 0, Len(heap))

\* heapq.heappushpop(heap, item); the returned item is not used by the caller
heappushpop(heap, item) ==
    IF Len(heap) > 0 /\ ItemLess(heap[1], item)
    THEN siftup([heap EXCEPT ![1] = item], 0)
    ELSE heap

\* heapq.heappop(heap): the heap that is left, and the item returned
HeapAfterPop(heap) ==
    LET rest == SubSeq(heap, 1, Len(heap) - 1)
    IN  IF rest # <<>> THEN siftup([rest EXCEPT ![1] = heap[Len(heap)]], 0) ELSE rest

HeapPopped(heap) == IF Len(heap) > 1 THEN heap[1] ELSE heap[Len(heap)]

\* ------------------------------------------------------------------------
\* State
\* ------------------------------------------------------------------------
VARIABLES
    pc,               \* where process_batch is: "start", "fetching", "await_q",
                      \* "await_s", "reading", "merging", "done", "failed"
    queries,          \* the queries argument: a sequence of texts
    top_n,            \* the top_n argument
    n_docs,           \* the n_docs argument
    all_docids,       \* per query, the ranked document ids
    flat_docids,      \* the deduplicated ids, one fetch job each
    fetch_jobs,       \* per fetch job: "pending", "ok" or "failed"
    flat_splits,      \* the flattened passages, one tokenize job each
    didx2sidx,        \* per fetched document, <<start, end>> in flat_splits
    q_jobs,           \* per question-tokenize job: "pending", "ok", "failed"
    s_jobs,           \* per passage-tokenize job: "pending", "ok", "failed"
    examples,         \* the ids of the examples, in emission order
    unread,           \* positions of examples the loader has not yielded yet
    result_handles,   \* per row read: [id, score], score <<>> when empty
    hpos,             \* rows of result_handles merged so far
    queues,           \* per query, its heap
    all_predictions,  \* the value returned
    ranker_calls,     \* calls made to the ranker
    reader_calls,     \* calls made to reader.predict
    doc,              \* SplitSpec: the text given to _split_doc
    passages,         \* SplitSpec: what _split_doc yielded
    spc               \* SplitSpec: "idle", "ready", "done"

vars == <<pc, queries, top_n, n_docs, all_docids, flat_docids, fetch_jobs,
          flat_splits, didx2sidx, q_jobs, s_jobs, examples, unread,
          result_handles, hpos, queues, all_predictions, ranker_calls,
          reader_calls, doc, passages, spc>>

pipeVars == <<pc, queries, top_n, n_docs, all_docids, flat_docids, fetch_jobs,
              flat_splits, didx2sidx, q_jobs, s_jobs, examples, unread,
              result_handles, hpos, queues, all_predictions, ranker_calls,
              reader_calls>>

splitVars == <<doc, passages, spc>>

\* ------------------------------------------------------------------------
\* Helpers of process_batch
\* ------------------------------------------------------------------------
SeqsUpTo(S, n) == UNION {[1..k -> S] : k \in 0..n}

RECURSIVE Concat(_)
Concat(seqs) == IF seqs = <<>> THEN <<>> ELSE Head(seqs) \o Concat(Tail(seqs))

Pending(n) == [i \in 1..n |-> "pending"]

\* (a variant of FlatDocidsOrders that keeps every occurrence of an id)
FlatDocidsNoDedup(docids) == {Concat(docids)}

\* list({d for docids in all_docids for d in docids}): the distinct ids, in
\* the set's iteration order, which Python leaves unspecified.
FlatDocidsOrders(docids) ==
    LET S == {d \in DocIds : \E q \in DOMAIN docids : \E r \in DOMAIN docids[q] : docids[q][r] = d}
    IN  {f \in [1..Cardinality(S) -> S] : \A d \in S : \E i \in DOMAIN f : f[i] = d}

\* did2didx[did]: a dict comprehension keeps the last position of a key
Did2Didx(did) ==
    (CHOOSE i \in DOMAIN flat_docids :
        /\ flat_docids[i] = did
        /\ \A j \in DOMAIN flat_docids : flat_docids[j] = did => j <= i) - 1

\* (a variant of AllComplete that does not wait)
AllCompleteNoWait(jobs) == TRUE

\* pool.map and AsyncResult.get return once every job of the set has completed
AllComplete(jobs) == \A i \in DOMAIN jobs : jobs[i] # "pending"

\* (a variant of Raised that swallows the jobs' errors)
RaisedNever(jobs) == FALSE

\* pool.map and AsyncResult.get re-raise the exception of a failed job
Raised(jobs) == \E i \in DOMAIN jobs : jobs[i] = "failed"

\* doc_texts: the fetch results, by position (a failed job has no text; its
\* result is never read, since the map has raised)
DocTexts == [i \in DOMAIN flat_docids |->
                IF fetch_jobs[i] = "ok" THEN DocText(flat_docids[i]) ELSE <<>>]

\* flat_splits after the loop of lines 250-255
FlatSplits(texts) == Concat([i \in DOMAIN texts |-> SplitDoc(texts[i])])

\* (a variant of SplitRanges that records every start as 0)
SplitRangesFromZero(texts) ==
    [i \in DOMAIN texts |->
        <<0, Len(FlatSplits(SubSeq(texts, 1, i)))>>]

\* didx2sidx after the loop of lines 250-255
SplitRanges(texts) ==
    [i \in DOMAIN texts |->
        <<Len(FlatSplits(SubSeq(texts, 1, i - 1))),
          Len(FlatSplits(SubSeq(texts, 1, i)))>>]

\* the tokenizer results that lines 271-289 read
QTokens(qidx) == Tokenize(queries[qidx + 1])
STokens(sidx) == Tokenize(flat_splits[sidx + 1])

\* start, end = didx2sidx[did2didx[did]]
DocRange(did) == didx2sidx[Did2Didx(did) + 1]

\* the examples of one (qidx, rel_didx): the loop over range(start, end)
ExamplesOfDoc(qidx, rel_didx) ==
    LET r == DocRange(all_docids[qidx + 1][rel_didx + 1])
        ids == [k \in 1..(r[2] - r[1]) |-> <<qidx, rel_didx, r[1] + k - 1>>]
        Keep(id) == Len(QTokens(id[1])) > 0 /\ Len(STokens(id[3])) > 0
    IN  SelectSeq(ids, Keep)

\* the loops over qidx and rel_didx
BuildExamples ==
    Concat([q \in 1..Len(queries) |->
        Concat([r \in 1..Len(all_docids[q]) |-> ExamplesOfDoc(q - 1, r - 1)])])

\* how many (query, rank, passage) triples a ranking gives rise to
Triples(ranked) ==
    Len(Concat([q \in DOMAIN ranked |->
        Concat([r \in DOMAIN ranked[q] |-> SplitDoc(DocText(ranked[q][r]))])]))

\* what the ranker may return for this call
RankedChoices ==
    {ranked \in [1..Len(queries) -> SeqsUpTo(DocIds, n_docs)] :
        Triples(ranked) <= MaxExamples}

\* (a variant of MergeItem that never bounds the queue)
MergeItemUnbounded(queue, item, topn) == heappush(queue, item)

\* (a variant of MergeItem that replaces the root whenever the queue is full)
MergeItemReplace(queue, item, topn) ==
    IF Len(queue) < topn THEN heappush(queue, item)
    ELSE IF Len(queue) > 0 THEN siftup([queue EXCEPT ![1] = item], 0) ELSE queue

\* lines 324-327
MergeItem(queue, item, topn) ==
    IF Len(queue) < topn THEN heappush(queue, item) ELSE heappushpop(queue, item)

Reverse(seq) == [i \in 1..Len(seq) |-> seq[Len(seq) + 1 - i]]

\* the prediction built from a popped item (span text and doc_score, which
\* come from the tokenizer and the ranker, are left out; the example id is
\* kept to tell which example a prediction came from)
Prediction(item) ==
    [doc_id |-> all_docids[item[2][1] + 1][item[2][2] + 1],
     span_score |-> item[1],
     id |-> item[2]]

\* the while loop of lines 338-374: pop until the queue is empty
RECURSIVE Drain(_)
Drain(queue) ==
    IF Len(queue) = 0 THEN <<>>
    ELSE <<Prediction(HeapPopped(queue))>> \o Drain(HeapAfterPop(queue))

\* (a variant of QueuePredictions that forgets to reverse)
QueuePredictionsAscending(queue) == Drain(queue)

\* predictions[-1::-1]
QueuePredictions(queue) == Reverse(Drain(queue))

EmptyQueues == [q \in 1..Len(queries) |-> <<>>]

\* ------------------------------------------------------------------------
\* process_batch
\* ------------------------------------------------------------------------
PipeIdle ==
    /\ pc = "idle" /\ queries = <<>> /\ top_n = 1 /\ n_docs = 1
    /\ all_docids = <<>> /\ flat_docids = <<>> /\ fetch_jobs = <<>>
    /\ flat_splits = <<>> /\ didx2sidx = <<>> /\ q_jobs = <<>> /\ s_jobs = <<>>
    /\ examples = <<>> /\ unread = {} /\ result_handles = <<>> /\ hpos = 0
    /\ queues = <<>> /\ all_predictions = <<>>
    /\ ranker_calls = 0 /\ reader_calls = 0

SplitIdle == doc = <<>> /\ passages = <<>> /\ spc = "idle"

\* A call of process_batch(queries, None, top_n, n_docs)
Init ==
    /\ pc = "start"
    /\ queries \in UNION {[1..n -> QueryTexts] : n \in QueryCounts}
    /\ top_n \in TopNs
    /\ n_docs \in NDocs
    /\ all_docids = <<>> /\ flat_docids = <<>> /\ fetch_jobs = <<>>
    /\ flat_splits = <<>> /\ didx2sidx = <<>> /\ q_jobs = <<>> /\ s_jobs = <<>>
    /\ examples = <<>> /\ unread = {} /\ result_handles = <<>> /\ hpos = 0
    /\ queues = <<>> /\ all_predictions = <<>>
    /\ ranker_calls = 0 /\ reader_calls = 0
    /\ SplitIdle

\* lines 227-244: rank, deduplicate, submit the fetch jobs.  With no query
\* at all, zip(*ranked) has nothing to unpack and line 238 raises.
Rank ==
    /\ pc = "start"
    /\ ranker_calls' = ranker_calls + 1
    /\ IF Len(queries) = 0
       THEN /\ pc' = "failed"
            /\ UNCHANGED <<all_docids, flat_docids, fetch_jobs>>
       ELSE \E ranked \in RankedChoices :
            \E order \in FlatDocidsOrders(ranked) :
                /\ all_docids' = ranked
                /\ flat_docids' = order
                /\ fetch_jobs' = Pending(Len(order))
                /\ pc' = "fetching"
    /\ UNCHANGED <<queries, top_n, n_docs, flat_splits, didx2sidx, q_jobs,
                   s_jobs, examples, unread, result_handles, hpos, queues,
                   all_predictions, reader_calls, splitVars>>

\* a pool worker runs fetch_text(doc_id)
FetchJob(i) ==
    /\ pc = "fetching"
    /\ fetch_jobs[i] = "pending"
    /\ \E r \in {"ok", "failed"} : fetch_jobs' = [fetch_jobs EXCEPT ![i] = r]
    /\ UNCHANGED <<pc, queries, top_n, n_docs, all_docids, flat_docids,
                   flat_splits, didx2sidx, q_jobs, s_jobs, examples, unread,
                   result_handles, hpos, queues, all_predictions,
                   ranker_calls, reader_calls, splitVars>>

\* line 244 returns (or raises), then lines 248-259: split, flatten, submit
\* both tokenize job sets
FetchReturn ==
    /\ pc = "fetching"
    /\ AllComplete(fetch_jobs)
    /\ IF Raised(fetch_jobs)
       THEN /\ pc' = "failed"
            /\ UNCHANGED <<flat_splits, didx2sidx, q_jobs, s_jobs>>
       ELSE /\ flat_splits' = FlatSplits(DocTexts)
            /\ didx2sidx' = SplitRanges(DocTexts)
            /\ q_jobs' = Pending(Len(queries))
            /\ s_jobs' = Pending(Len(flat_splits'))
            /\ pc' = "await_q"
    /\ UNCHANGED <<queries, top_n, n_docs, all_docids, flat_docids, fetch_jobs,
                   examples, unread, result_handles, hpos, queues,
                   all_predictions, ranker_calls, reader_calls, splitVars>>

\* a pool worker runs tokenize_text on a query
TokenizeQ(i) ==
    /\ pc \in {"await_q", "await_s"}
    /\ q_jobs[i] = "pending"
    /\ \E r \in {"ok", "failed"} : q_jobs' = [q_jobs EXCEPT ![i] = r]
    /\ UNCHANGED <<pc, queries, top_n, n_docs, all_docids, flat_docids,
                   fetch_jobs, flat_splits, didx2sidx, s_jobs, examples, unread,
                   result_handles, hpos, queues, all_predictions,
                   ranker_calls, reader_calls, splitVars>>

\* a pool worker runs tokenize_text on a passage
TokenizeS(i) ==
    /\ pc \in {"await_q", "await_s"}
    /\ s_jobs[i] = "pending"
    /\ \E r \in {"ok", "failed"} : s_jobs' = [s_jobs EXCEPT ![i] = r]
    /\ UNCHANGED <<pc, queries, top_n, n_docs, all_docids, flat_docids,
                   fetch_jobs, flat_splits, didx2sidx, q_jobs, examples, unread,
                   result_handles, hpos, queues, all_predictions,
                   ranker_calls, reader_calls, splitVars>>

\* line 260: q_tokens.get()
AwaitQ ==
    /\ pc = "await_q"
    /\ AllComplete(q_jobs)
    /\ pc' = IF Raised(q_jobs) THEN "failed" ELSE "await_s"
    /\ UNCHANGED <<queries, top_n, n_docs, all_docids, flat_docids, fetch_jobs,
                   flat_splits, didx2sidx, q_jobs, s_jobs, examples, unread,
                   result_handles, hpos, queues, all_predictions,
                   ranker_calls, reader_calls, splitVars>>

\* line 261: s_tokens.get(), then lines 265-298: build the examples and the
\* loader (and, when the loader is empty, line 315)
AwaitS ==
    /\ pc = "await_s"
    /\ AllComplete(s_jobs)
    /\ IF Raised(s_jobs)
       THEN /\ pc' = "failed"
            /\ UNCHANGED <<examples, unread, queues>>
       ELSE /\ examples' = BuildExamples
            /\ unread' = DOMAIN examples'
            /\ pc' = IF unread' = {} THEN "merging" ELSE "reading"
            /\ queues' = IF unread' = {} THEN EmptyQueues ELSE queues
    /\ UNCHANGED <<queries, top_n, n_docs, all_docids, flat_docids, fetch_jobs,
                   flat_splits, didx2sidx, q_jobs, s_jobs, result_handles, hpos,
                   all_predictions, ranker_calls, reader_calls, splitVars>>

\* lines 298-311, one row: the loader yields the examples in the order of
\* their lengths, which is any order; the reader returns a score or nothing
\* for the row.  After the last row, line 315 makes the queues.
Read ==
    /\ pc = "reading"
    /\ \E i \in unread :
       \E res \in {<<>>} \cup {<<v>> : v \in Scores} :
            /\ result_handles' =
                   Append(result_handles, [id |-> examples[i], score |-> res])
            /\ unread' = unread \ {i}
    /\ reader_calls' = reader_calls + 1
    /\ pc' = IF unread' = {} THEN "merging" ELSE "reading"
    /\ queues' = IF unread' = {} THEN EmptyQueues ELSE queues
    /\ UNCHANGED <<queries, top_n, n_docs, all_docids, flat_docids, fetch_jobs,
                   flat_splits, didx2sidx, q_jobs, s_jobs, examples, hpos,
                   all_predictions, ranker_calls, splitVars>>

\* lines 306-310: reader.predict raises
ReadFail ==
    /\ pc = "reading"
    /\ reader_calls' = reader_calls + 1
    /\ pc' = "failed"
    /\ UNCHANGED <<queries, top_n, n_docs, all_docids, flat_docids, fetch_jobs,
                   flat_splits, didx2sidx, q_jobs, s_jobs, examples, unread,
                   result_handles, hpos, queues, all_predictions,
                   ranker_calls, splitVars>>

\* lines 316-327, one row
Merge ==
    /\ pc = "merging"
    /\ hpos < Len(result_handles)
    /\ LET h == result_handles[hpos + 1]
       IN  queues' = IF Len(h.score) > 0
                     THEN [queues EXCEPT ![h.id[1] + 1] =
                              MergeItem(@, <<h.score[1], h.id>>, top_n)]
                     ELSE queues
    /\ hpos' = hpos + 1
    /\ UNCHANGED <<pc, queries, top_n, n_docs, all_docids, flat_docids,
                   fetch_jobs, flat_splits, didx2sidx, q_jobs, s_jobs, examples,
                   unread, result_handles, all_predictions, ranker_calls,
                   reader_calls, splitVars>>

\* lines 335-380: drain every queue, reverse, return
Finalize ==
    /\ pc = "merging"
    /\ hpos = Len(result_handles)
    /\ all_predictions' = [q \in DOMAIN queues |-> QueuePredictions(queues[q])]
    /\ queues' = [q \in DOMAIN queues |-> <<>>]
    /\ pc' = "done"
    /\ UNCHANGED <<queries, top_n, n_docs, all_docids, flat_docids, fetch_jobs,
                   flat_splits, didx2sidx, q_jobs, s_jobs, examples, unread,
                   result_handles, hpos, ranker_calls, reader_calls, splitVars>>

Next ==
    \/ Rank
    \/ \E i \in DOMAIN fetch_jobs : FetchJob(i)
    \/ FetchReturn
    \/ \E i \in DOMAIN q_jobs : TokenizeQ(i)
    \/ \E i \in DOMAIN s_jobs : TokenizeS(i)
    \/ AwaitQ
    \/ AwaitS
    \/ Read
    \/ ReadFail
    \/ Merge
    \/ Finalize

Spec == Init /\ [][Next]_vars

\* ------------------------------------------------------------------------
\* _split_doc on its own
\* ------------------------------------------------------------------------
Texts == SeqsUpTo(Alphabet, MaxDocLen)

SplitInit ==
    /\ PipeIdle
    /\ doc \in Texts
    /\ passages = <<>>
    /\ spc = "ready"

\* list(self._split_doc(doc))
CallSplitDoc ==
    /\ spc = "ready"
    /\ passages' = SplitDoc(doc)
    /\ spc' = "done"
    /\ UNCHANGED <<doc, pipeVars>>

SplitNext == CallSplitDoc

SplitSpec == SplitInit /\ [][SplitNext]_vars

\* ========================================================================
\* Properties
\* ========================================================================
Min(a, b) == IF a < b THEN a ELSE b
Max(a, b) == IF a < b THEN b ELSE a

QIdx == 0..(Len(queries) - 1)

\* the scored spans of query q among the first n rows of result_handles
MergedItems(q, n) ==
    {<<result_handles[i].score[1], result_handles[i].id>> :
        i \in {j \in 1..n : /\ Len(result_handles[j].score) > 0
                            /\ result_handles[j].id[1] = q}}

QueueItems(q) == {queues[q + 1][i] : i \in DOMAIN queues[q + 1]}

\* the scores of a set of items, highest first
RECURSIVE ScoresDesc(_)
ScoresDesc(S) ==
    IF S = {} THEN <<>>
    ELSE LET m == CHOOSE x \in S : \A y \in S : y[1] <= x[1]
         IN  <<m[1]>> \o ScoresDesc(S \ {m})

\* ------------------------------------------------------------------------
\* C1: with top_n >= 1, after each merge a query's queue holds exactly
\* min(top_n, number of spans merged so far) entries, all of them merged
\* spans, and no merged span left out has a higher score than an entry kept:
\* the queue is the top_n highest-scoring spans so far, up to score ties.
QueueHoldsTopN ==
    (pc = "merging" /\ top_n >= 1) =>
        \A q \in QIdx :
            LET M == MergedItems(q, hpos)
                Q == QueueItems(q)
            IN  /\ Len(queues[q + 1]) = Min(top_n, Cardinality(M))
                /\ Cardinality(Q) = Len(queues[q + 1])
                /\ Q \subseteq M
                /\ \A x \in Q : \A y \in M \ Q : y[1] <= x[1]

\* a full queue of two entries after three merges, a lower-scored span left out
QueueHoldsTopNWitness ==
    /\ pc = "merging" /\ top_n = 2
    /\ \E q \in QIdx :
        /\ Cardinality(MergedItems(q, hpos)) = 3
        /\ Len(queues[q + 1]) = 2
        /\ \E x \in QueueItems(q) :
           \E y \in MergedItems(q, hpos) \ QueueItems(q) : y[1] < x[1]

\* ------------------------------------------------------------------------
\* C2: the final list of a query depends only on the set of scored spans
\* that were merged, not on the order in which they arrived: its scores are
\* the first top_n scores of the descending sort of all merged spans, and its
\* entries are distinct merged spans carrying those scores.
FinalListOrderInsensitive ==
    pc = "done" =>
        \A q \in QIdx :
            LET M == MergedItems(q, Len(result_handles))
                k == Min(Max(top_n, 0), Cardinality(M))
                L == all_predictions[q + 1]
            IN  /\ [i \in 1..Len(L) |-> L[i].span_score]
                       = SubSeq(ScoresDesc(M), 1, k)
                /\ \A i \in 1..Len(L) : <<L[i].span_score, L[i].id>> \in M
                /\ \A i, j \in 1..Len(L) : L[i].id = L[j].id => i = j

\* a call that has returned after a query's spans arrived neither in
\* ascending nor in descending order of score, more of them than top_n
FinalListOrderInsensitiveWitness ==
    /\ pc = "done" /\ top_n >= 1
    /\ \E q \in QIdx :
        /\ Cardinality(MergedItems(q, Len(result_handles))) > top_n
        /\ \E i, j, k \in DOMAIN result_handles :
            /\ i < j /\ j < k
            /\ \A n \in {i, j, k} :
                /\ result_handles[n].id[1] = q
                /\ Len(result_handles[n].score) > 0
            /\ result_handles[i].score[1] > result_handles[j].score[1]
            /\ result_handles[j].score[1] < result_handles[k].score[1]

\* ------------------------------------------------------------------------
\* C3: one fetch job per distinct ranked document identifier, however many
\* queries (or ranks of one query) name it, and one tokenize job per passage
\* of each such document.
Count(d, seq) == Cardinality({i \in DOMAIN seq : seq[i] = d})

\* the passages of each stored document
DocPassages == [d \in DocIds |-> SplitDoc(DocText(d))]

RankedIds ==
    {d \in DocIds : \E q \in DOMAIN all_docids :
                    \E r \in DOMAIN all_docids[q] : all_docids[q][r] = d}

FetchedAndTokenizedOnce ==
    /\ pc # "start" =>
        /\ Len(fetch_jobs) = Len(flat_docids)
        /\ LET ranked == RankedIds
           IN  \A d \in DocIds :
                   Count(d, flat_docids) = IF d \in ranked THEN 1 ELSE 0
    /\ q_jobs # <<>> =>
        /\ Len(s_jobs) = Len(flat_splits)
        /\ flat_splits =
             Concat([i \in DOMAIN flat_docids |-> DocPassages[flat_docids[i]]])

\* two queries rank the same document, one of them twice; one fetch job and
\* one tokenize job per passage have been submitted
FetchedAndTokenizedOnceWitness ==
    /\ q_jobs # <<>> /\ Len(queries) = 2
    /\ \E d \in DocIds :
        /\ \A q \in DOMAIN all_docids : Count(d, all_docids[q]) >= 1
        /\ \E q \in DOMAIN all_docids : Count(d, all_docids[q]) = 2
        /\ flat_docids = <<d>>
        /\ Len(s_jobs) = Len(DocPassages[d])

\* ------------------------------------------------------------------------
\* C4: process_batch returns one list per query, in input order; the list of
\* query i holds only predictions of examples of query i, at most top_n of
\* them, in non-increasing order of span score.
PredictionListsShape ==
    pc = "done" =>
        /\ Len(all_predictions) = Len(queries)
        /\ \A q \in QIdx :
            LET L == all_predictions[q + 1]
            IN  /\ \A i \in 1..Len(L) : L[i].id[1] = q
                /\ Len(L) <= top_n
                /\ \A i \in 1..(Len(L) - 1) : L[i].span_score >= L[i + 1].span_score

\* ------------------------------------------------------------------------
\* C5: every example's key (qidx, rel_didx, sidx) has qidx a query index,
\* rel_didx a rank of that query, and sidx inside the range of flat_splits
\* that holds the passages of the document ranked there, so that the passage
\* at sidx is that document's passage.  The range a document owns is counted
\* here from the fetch order, not read from didx2sidx.
FetchPos(did) == CHOOSE p \in DOMAIN flat_docids : flat_docids[p] = did

RECURSIVE PassagesBefore(_)
PassagesBefore(p) ==
    IF p <= 1 THEN 0
    ELSE PassagesBefore(p - 1) + Len(DocPassages[flat_docids[p - 1]])

ExampleKeysInOwnRange ==
    examples # <<>> =>
        LET start == [p \in DOMAIN flat_docids |-> PassagesBefore(p)]
            range == [p \in DOMAIN flat_docids |->
                         <<start[p], start[p] + Len(DocPassages[flat_docids[p]])>>]
        IN  \A n \in DOMAIN examples :
                LET qidx == examples[n][1]
                    rel_didx == examples[n][2]
                    sidx == examples[n][3]
                IN  /\ qidx \in QIdx
                    /\ rel_didx \in 0..(Len(all_docids[qidx + 1]) - 1)
                    /\ LET did == all_docids[qidx + 1][rel_didx + 1]
                           own == range[FetchPos(did)]
                       IN  /\ DocRange(did) = own
                           /\ own[1] <= sidx /\ sidx < own[2]
                           /\ flat_splits[sidx + 1]
                                  = DocPassages[did][sidx - own[1] + 1]

\* examples of a query that ranks two documents, one of them in the range of
\* the document fetched second
ExampleKeysInOwnRangeWitness ==
    /\ Len(flat_docids) = 2
    /\ \E n, m \in DOMAIN examples :
        /\ examples[n][1] = examples[m][1]
        /\ examples[n][2] # examples[m][2]
        /\ all_docids[examples[n][1] + 1][examples[n][2] + 1] = flat_docids[2]
        /\ all_docids[examples[m][1] + 1][examples[m][2] + 1] = flat_docids[1]
        /\ examples[n][3] >= 1

\* ------------------------------------------------------------------------
\* C6: a call with top_n < 1 or n_docs < 1 dispatches nothing (no ranker
\* call, no fetch job, no tokenize job, no reader call) and returns no
\* prediction lists.
BadConfigDispatchesNothing ==
    (top_n < 1 \/ n_docs < 1) =>
        /\ ranker_calls = 0
        /\ fetch_jobs = <<>>
        /\ q_jobs = <<>> /\ s_jobs = <<>>
        /\ reader_calls = 0
        /\ pc # "done"

\* ------------------------------------------------------------------------
\* C7: once a fetch job, a tokenize job or a reader call has failed, the call
\* goes no further than the stage that waits for it, and can only end failed:
\* the failed document is not split (no passage stands in for it), the failed
\* tokenization is not turned into examples, and nothing is returned.
FetchFailed == \E i \in DOMAIN fetch_jobs : fetch_jobs[i] = "failed"
TokenizeFailed ==
    \/ \E i \in DOMAIN q_jobs : q_jobs[i] = "failed"
    \/ \E i \in DOMAIN s_jobs : s_jobs[i] = "failed"
ReaderFailed == reader_calls > Len(result_handles)

FailureFailsTheCall ==
    /\ FetchFailed =>
        /\ pc \in {"fetching", "failed"}
        /\ flat_splits = <<>> /\ didx2sidx = <<>> /\ s_jobs = <<>>
    /\ TokenizeFailed =>
        /\ pc \in {"await_q", "await_s", "failed"}
        /\ examples = <<>> /\ reader_calls = 0
    /\ ReaderFailed => /\ pc = "failed"
                       /\ hpos = 0
    /\ (FetchFailed \/ TokenizeFailed \/ ReaderFailed) => all_predictions = <<>>

\* a call of two queries that has failed on one passage's tokenization while
\* every other job succeeded
FailureFailsTheCallWitness ==
    /\ pc = "failed" /\ Len(queries) = 2
    /\ \A i \in DOMAIN q_jobs : q_jobs[i] = "ok"
    /\ Cardinality({i \in DOMAIN s_jobs : s_jobs[i] = "failed"}) = 1
    /\ Cardinality({i \in DOMAIN s_jobs : s_jobs[i] = "ok"}) >= 1

\* ------------------------------------------------------------------------
\* C9, as stated: when the queue of the row's query is full and the row's
\* score does not exceed the lowest score in the queue (equal included), the
\* merge leaves the queues as they are.
RowItem == <<result_handles[hpos + 1].score[1], result_handles[hpos + 1].id>>
RowQueue == queues[result_handles[hpos + 1].id[1] + 1]

MergesIntoFullQueue ==
    /\ pc = "merging" /\ hpos < Len(result_handles)
    /\ Len(result_handles[hpos + 1].score) > 0
    /\ top_n >= 1
    /\ Len(RowQueue) = top_n

KeyGreater(a, b) ==
    \/ a[1] > b[1]
    \/ a[1] = b[1] /\ a[2] > b[2]
    \/ a[1] = b[1] /\ a[2] = b[2] /\ a[3] > b[3]

\* the entry of a queue that is lowest in (score, key) order
LowestEntry(queue) ==
    CHOOSE x \in {queue[i] : i \in DOMAIN queue} :
        \A i \in DOMAIN queue :
            \/ queue[i] = x
            \/ queue[i][1] > x[1]
            \/ queue[i][1] = x[1] /\ KeyGreater(queue[i][2], x[2])

EqualScoreIsDiscarded ==
    [][(MergesIntoFullQueue /\ hpos' = hpos + 1
            /\ RowItem[1] <= LowestEntry(RowQueue)[1])
        => queues' = queues]_vars

\* C9, amended: when the queue of the row's query is full, the merge evicts
\* the lowest entry and inserts the row exactly when the row's score is
\* higher than the lowest entry's, or equal to it with a greater example key
\* (qidx, rel_didx, sidx); otherwise the row is discarded and the queues are
\* left as they are.
EvictsOnGreaterTuple ==
    [][(MergesIntoFullQueue /\ hpos' = hpos + 1) =>
        LET low == LowestEntry(RowQueue)
            q == result_handles[hpos + 1].id[1]
        IN  IF \/ RowItem[1] > low[1]
               \/ RowItem[1] = low[1] /\ KeyGreater(RowItem[2], low[2])
            THEN /\ {queues'[q + 1][i] : i \in DOMAIN queues'[q + 1]}
                        = (QueueItems(q) \ {low}) \cup {RowItem}
                 /\ Len(queues'[q + 1]) = top_n
                 /\ \A o \in QIdx : o # q => queues'[o + 1] = queues[o + 1]
            ELSE queues' = queues]_vars

\* with top_n = 1, a second row of the same score and a greater key has
\* taken the place of the first
EvictsOnGreaterTupleWitness ==
    /\ pc = "merging" /\ top_n = 1 /\ hpos = 2
    /\ Len(result_handles[1].score) > 0 /\ Len(result_handles[2].score) > 0
    /\ result_handles[1].id[1] = result_handles[2].id[1]
    /\ result_handles[1].score = result_handles[2].score
    /\ KeyGreater(result_handles[2].id, result_handles[1].id)
    /\ queues[result_handles[2].id[1] + 1]
         = <<<<result_handles[2].score[1], result_handles[2].id>>>>

\* ------------------------------------------------------------------------
\* C10: the stages are ordered.  No tokenize job exists while a fetch job is
\* pending; whenever the call waits for a tokenization result, or is past
\* that, both job sets have been submitted in full; no example is built and
\* no reader call made while a tokenize job is pending.
StagesOrdered ==
    /\ (q_jobs # <<>> \/ s_jobs # <<>>) =>
            \A i \in DOMAIN fetch_jobs : fetch_jobs[i] # "pending"
    /\ pc \in {"await_q", "await_s", "reading", "merging", "done"} =>
            /\ Len(q_jobs) = Len(queries)
            /\ Len(s_jobs) = Len(flat_splits)
    /\ (examples # <<>> \/ reader_calls > 0) =>
            /\ \A i \in DOMAIN q_jobs : q_jobs[i] # "pending"
            /\ \A i \in DOMAIN s_jobs : s_jobs[i] # "pending"

\* the reader has been called on an example of a call with several passages
StagesOrderedWitness ==
    /\ pc = "reading" /\ reader_calls > 0
    /\ Len(s_jobs) >= 2 /\ Len(flat_docids) = 2

\* ------------------------------------------------------------------------
\* C8, as stated: with GROUP_LENGTH = 0, _split_doc yields the non-empty
\* trimmed paragraphs of the text, a paragraph being what lies between blank
\* lines.
RECURSIVE LinesFrom(_, _, _, _)
LinesFrom(s, i, cur, out) ==
    IF i > Len(s) THEN Append(out, cur)
    ELSE IF s[i] = "\n" THEN LinesFrom(s, i + 1, <<>>, Append(out, cur))
    ELSE LinesFrom(s, i + 1, Append(cur, s[i]), out)

\* the lines of a text: what lies between newline characters
Lines(s) == LinesFrom(s, 1, <<>>, <<>>)

IsBlank(line) == \A i \in DOMAIN line : line[i] = " "

RECURSIVE JoinLines(_)
JoinLines(ls) ==
    IF ls = <<>> THEN <<>>
    ELSE IF Len(ls) = 1 THEN ls[1]
    ELSE ls[1] \o <<"\n">> \o JoinLines(Tail(ls))

\* the paragraphs of a text: the maximal groups of consecutive non-blank
\* lines, each trimmed
RECURSIVE ParagraphsFrom(_, _, _)
ParagraphsFrom(ls, cur, out) ==
    IF ls = <<>>
    THEN IF cur = <<>> THEN out ELSE Append(out, Strip(JoinLines(cur)))
    ELSE IF IsBlank(Head(ls))
         THEN ParagraphsFrom(Tail(ls), <<>>,
                  IF cur = <<>> THEN out ELSE Append(out, Strip(JoinLines(cur))))
         ELSE ParagraphsFrom(Tail(ls), Append(cur, Head(ls)), out)

BlankLineParagraphs(s) == ParagraphsFrom(Lines(s), <<>>, <<>>)

OnePassagePerBlankLineParagraph ==
    spc = "done" => passages = BlankLineParagraphs(doc)

\* C8, amended: with GROUP_LENGTH = 0, _split_doc yields the non-empty
\* trimmed lines of the text, in order, one passage each: every newline is a
\* paragraph boundary, whether or not a blank line follows.
RECURSIVE TrimmedNonEmpty(_)
TrimmedNonEmpty(ls) ==
    IF ls = <<>> THEN <<>>
    ELSE IF IsBlank(Head(ls)) THEN TrimmedNonEmpty(Tail(ls))
    ELSE <<Strip(Head(ls))>> \o TrimmedNonEmpty(Tail(ls))

OnePassagePerLine ==
    spc = "done" => passages = TrimmedNonEmpty(Lines(doc))

\* a text of two non-blank lines with a single newline between them has been
\* split into two passages
OnePassagePerLineWitness ==
    /\ spc = "done"
    /\ Len(passages) = 2
    /\ Count("\n", doc) = 1

====
